---- MODULE Spec2Model ----
(***************************************************************************)
(* The nexus I/O dispatch and completion engine of mayastor                *)
(* (bdev/nexus/nexus_io.rs): nexus_submit_io, NexusBio::readv,             *)
(* NexusBio::submit_all, NexusBio::complete, NexusBio::disposition,        *)
(* NexusBio::try_retire and the asynchronous NexusBio::child_retire.       *)
(***************************************************************************)
EXTENDS Integers, Sequences, FiniteSets, TLC

\* ------------------------------------------------------------------------
\* Bounds of the model
\* ------------------------------------------------------------------------
\* replicas of the nexus
NumChildren == 3
\* requests admitted in one behaviour
MaxReq == 1
\* child_retire futures of one child that requests of the past have sent
MaxQueued == 2
\* reactor cores that admit requests
NumCores == 1

\* width of NioCtx.in_flight and NioCtx.num_ok (u8)
U8 == 256

Child == 1..NumChildren
Req == 1..MaxReq
CoreIds == 0..(NumCores - 1)

\* enum IoType, as far as nexus_submit_io tells the variants apart
IoType ==
  {"Read", "Write", "WriteZeros", "Reset", "Unmap", "Flush", "NvmeAdmin", "Invalid"}

\* the variants nexus_submit_io hands to submit_all
FanOut == {"Write", "WriteZeros", "Reset", "Unmap"}

\* the values NioCtx.status takes
CtxStatus == {"Pending", "Failed", "NoMemory"}

\* errno values a rejected spdk_bdev_* submission returns
Errno == {"ENOMEM", "EINVAL", "EIO"}

\* GenericStatusCode of a completed child IO, as far as try_retire tells them apart
NvmeStatus == {"Success", "InvalidOpcode", "InternalDeviceError"}

\* the stages of one child_retire task: queued on the master reactor, then
\* suspended in each of its four awaits, then finished: done, or returned
\* early because a lookup found nothing (unresolved) or because the
\* compare-and-swap saw another state than Open (lost)
Stage ==
  {"queued", "pause", "reconfigure", "destroy", "resume", "done",
   "unresolved", "lost"}

VARIABLES
  debug_assertions,   \* the build: debug_assert_eq! and overflow checks compiled in
  panicked,           \* a panic! unwound into the reactor: the process is gone
  nexus_registered,   \* nexus_lookup(name) resolves
  children,           \* the nexus' children, in order (child_lookup resolves these)
  child_state,        \* child.state of every child
  bdev,               \* which children still have their underlying bdev
  pause_count,        \* nexus.pause() calls not yet matched by nexus.resume()
  channel,            \* per core: NexusChannelInner.readers and .writers
  bio,                \* per request: the NexusBio with its NioCtx and its child IOs
  tasks               \* per child: how many child_retire futures are in each stage

vars ==
  <<debug_assertions, panicked, nexus_registered, children, child_state, bdev,
    pause_count, channel, bio, tasks>>


\* ------------------------------------------------------------------------
\* The request: NexusBio and its NioCtx
\* ------------------------------------------------------------------------

\* NexusBio::nexus_bio_setup: the context of a freshly admitted request
nexus_bio_setup(core) ==
  [in_flight |-> 0, num_ok |-> 0, status |-> "Pending", core |-> core]

\* a request slot nobody has submitted yet
NoBio ==
  [admitted |-> FALSE, io_type |-> "Invalid", core |-> 0,
   ctx |-> nexus_bio_setup(0),
   errno |-> "none",       \* what the dispatch pass returned: "none" is Ok(())
   submitted |-> {},       \* children whose submission the device accepted
   child_ios |-> {},       \* accepted child IOs whose callback has not run
   result |-> [c \in Child |-> "none"],  \* what each processed callback reported
   retired |-> {},         \* children this request sent a child_retire future for
   arm |-> 0,              \* the arm of disposition the last callback took (0: none)
   answered |-> <<>>]      \* every ok() / fail() / no_mem() of the request, in order

\* Bio::ok, Bio::fail, Bio::no_mem: the parent IO is completed to the upper
\* layer with `st`. `by` is the child whose callback makes the call (0: the
\* dispatch step) and `pending` the accepted child IOs whose callback has
\* still to run at that moment.
io_complete(b, st, by, pending) ==
  [b EXCEPT !.answered =
     Append(@, [status |-> st, by |-> by, pending |-> Cardinality(pending)])]

\* disposition as it would be if the arm for a failed last completion did
\* not look at num_ok: every such request is failed
disposition_ignores_num_ok(ctx) ==
  IF ctx.status = "Pending" /\ ctx.in_flight = 0
    THEN [kind |-> "Complete", status |-> "Success", arm |-> 1]
  ELSE IF ctx.status = "Pending" /\ ctx.in_flight # 0
    THEN [kind |-> "Flying", status |-> "Success", arm |-> 2]
  ELSE IF ctx.status = "Failed" /\ ctx.in_flight # 0
    THEN [kind |-> "Retire", status |-> "Pending", arm |-> 3]
  ELSE IF ctx.status = "Failed" /\ ctx.in_flight = 0
    THEN [kind |-> "Complete", status |-> "Failed", arm |-> 5]
  ELSE IF ctx.status = "NoMemory" /\ ctx.in_flight = 0
    THEN [kind |-> "Complete", status |-> "NoMemory", arm |-> 6]
  ELSE [kind |-> "Complete", status |-> "Failed", arm |-> 7]

\* disposition as it would be if a failed last completion always retired its
\* child and succeeded, successes before it or not
disposition_retires_last(ctx) ==
  IF ctx.status = "Pending" /\ ctx.in_flight = 0
    THEN [kind |-> "Complete", status |-> "Success", arm |-> 1]
  ELSE IF ctx.status = "Pending" /\ ctx.in_flight # 0
    THEN [kind |-> "Flying", status |-> "Success", arm |-> 2]
  ELSE IF ctx.status = "Failed" /\ ctx.in_flight # 0
    THEN [kind |-> "Retire", status |-> "Pending", arm |-> 3]
  ELSE IF ctx.status = "Failed" /\ ctx.in_flight = 0
    THEN [kind |-> "Retire", status |-> "Success", arm |-> 4]
  ELSE IF ctx.status = "NoMemory" /\ ctx.in_flight = 0
    THEN [kind |-> "Complete", status |-> "NoMemory", arm |-> 6]
  ELSE [kind |-> "Complete", status |-> "Failed", arm |-> 7]

\* NexusBio::disposition: kind(status) of the Disposition and the match arm
\* that produced it (arm 7 is the catch-all)
disposition(ctx) ==
  IF ctx.status = "Pending" /\ ctx.in_flight = 0
    THEN [kind |-> "Complete", status |-> "Success", arm |-> 1]
  ELSE IF ctx.status = "Pending" /\ ctx.in_flight # 0
    THEN [kind |-> "Flying", status |-> "Success", arm |-> 2]
  ELSE IF ctx.status = "Failed" /\ ctx.in_flight # 0
    THEN [kind |-> "Retire", status |-> "Pending", arm |-> 3]
  ELSE IF ctx.status = "Failed" /\ ctx.num_ok # 0 /\ ctx.in_flight = 0
    THEN [kind |-> "Retire", status |-> "Success", arm |-> 4]
  ELSE IF ctx.status = "Failed" /\ ctx.num_ok = 0 /\ ctx.in_flight = 0
    THEN [kind |-> "Complete", status |-> "Failed", arm |-> 5]
  ELSE IF ctx.status = "NoMemory" /\ ctx.in_flight = 0
    THEN [kind |-> "Complete", status |-> "NoMemory", arm |-> 6]
  ELSE [kind |-> "Complete", status |-> "Failed", arm |-> 7]

\* try_retire as it would be without the check of the status code
try_retire_always(nvme_status) == TRUE

\* NexusBio::try_retire: is a child_retire future sent for the failed child IO
try_retire(nvme_status) == nvme_status # "InvalidOpcode"

\* the first k handles of a channel's writers, the ones try_for_each reached
\* before it stopped
Accepted(writers, k) == {writers[i] : i \in 1..k}

\* the tentative status the map_err closure of submit_all records
submit_status(e) ==
  IF e = "none" THEN "Pending"
  ELSE IF e = "ENOMEM" THEN "NoMemory"
  ELSE "Failed"

\* submit_all as it would be if it counted every submission it attempted,
\* the rejected one included
submit_all_counts_attempts(b, writers, k, e) ==
  IF k # 0
    THEN [bio |-> [b EXCEPT !.ctx.in_flight = IF e = "none" THEN k ELSE k + 1,
                            !.ctx.status = submit_status(e),
                            !.errno = e,
                            !.submitted = Accepted(writers, k),
                            !.child_ios = Accepted(writers, k)],
          panic |-> FALSE]
  ELSE IF e = "ENOMEM"
    THEN [bio |-> io_complete([b EXCEPT !.errno = e], "NoMemory", 0, {}),
          panic |-> FALSE]
  ELSE IF debug_assertions /\ e # "EINVAL"
    THEN [bio |-> [b EXCEPT !.errno = e], panic |-> TRUE]
  ELSE [bio |-> io_complete([b EXCEPT !.errno = e], "Failed", 0, {}),
        panic |-> FALSE]

\* NexusBio::submit_all on a freshly set up request b: the device accepted
\* the first k writers and rejected the next one with e ("none": all of them
\* were accepted). The result is the request afterwards and whether the
\* debug assertion of the last branch panicked.
submit_all(b, writers, k, e) ==
  IF k # 0
    THEN [bio |-> [b EXCEPT !.ctx.in_flight = k,
                            !.ctx.status = submit_status(e),
                            !.errno = e,
                            !.submitted = Accepted(writers, k),
                            !.child_ios = Accepted(writers, k)],
          panic |-> FALSE]
  ELSE IF e = "ENOMEM"
    THEN [bio |-> io_complete([b EXCEPT !.errno = e], "NoMemory", 0, {}),
          panic |-> FALSE]
  ELSE IF debug_assertions /\ e # "EINVAL"
    THEN [bio |-> [b EXCEPT !.errno = e], panic |-> TRUE]
  ELSE [bio |-> io_complete([b EXCEPT !.errno = e], "Failed", 0, {}),
        panic |-> FALSE]

\* NexusChannelInner::child_select: the readers the selection policy may pick
\* (none when the channel has no reader)
child_select(readers) == {readers[i] : i \in 1..Len(readers)}

\* readv as it would be if the branch without a reader only returned the
\* error, as the branch of a rejected submission does
readv_no_fail(b, pick, e) ==
  IF pick # 0
    THEN IF e = "none"
           THEN [b EXCEPT !.ctx.in_flight = (@ + 1) % U8,
                          !.submitted = {pick},
                          !.child_ios = {pick}]
           ELSE [b EXCEPT !.errno = e]
    ELSE [b EXCEPT !.errno = "ENODEV"]

\* readv as it would be if it did not count the read it submitted
readv_no_count(b, pick, e) ==
  IF pick # 0
    THEN IF e = "none"
           THEN [b EXCEPT !.submitted = {pick},
                          !.child_ios = {pick}]
           ELSE [b EXCEPT !.errno = e]
    ELSE io_complete([b EXCEPT !.errno = "ENODEV"], "Failed", 0, {})

\* NexusBio::readv on a freshly set up request b: `pick` is the reader
\* child_select chose (0: None) and e what submit_read returned
readv(b, pick, e) ==
  IF pick # 0
    THEN IF e = "none"
           THEN [b EXCEPT !.ctx.in_flight = (@ + 1) % U8,
                          !.submitted = {pick},
                          !.child_ios = {pick}]
           ELSE [b EXCEPT !.errno = e]
    ELSE io_complete([b EXCEPT !.errno = "ENODEV"], "Failed", 0, {})

\* what a context read through a NexusBio yields. Once the parent IO has
\* been completed to the upper layer its spdk_bdev_io, context included, is
\* back with the bdev layer, which hands it out again: a child callback that
\* arrives after that reads whatever is there now.
ctx_read(b) ==
  IF b.answered = <<>>
    THEN {b.ctx}
    ELSE {b.ctx} \cup
         [in_flight : 0..NumChildren, num_ok : 0..NumChildren,
          status : CtxStatus, core : CoreIds]

\* NexusBio::complete for the callback of child c of request b, which read
\* the context `seen`. The result is the request afterwards, whether an
\* assertion or an overflow check panicked, and whether try_retire sent a
\* child_retire future for c.
complete(b, c, success, nvme_status, seen) ==
  LET pending == b.child_ios \ {c}
      c1 == [seen EXCEPT !.in_flight = (@ - 1) % U8]
      c2 == IF success THEN [c1 EXCEPT !.num_ok = (@ + 1) % U8]
                       ELSE [c1 EXCEPT !.status = "Failed"]
      d == disposition(c2)
      got == [b EXCEPT !.result[c] = IF success THEN "ok" ELSE nvme_status,
                       !.arm = d.arm]
      free(x) == [x EXCEPT !.child_ios = pending]
      sent == ~success /\ try_retire(nvme_status)
      sending(x) == IF sent THEN [x EXCEPT !.retired = @ \cup {c}] ELSE x
  IN
  IF seen.core # b.core
    THEN [bio |-> [got EXCEPT !.arm = 0], panic |-> TRUE, retire |-> FALSE]
  ELSE IF debug_assertions /\ seen.in_flight = 0
    THEN [bio |-> [got EXCEPT !.arm = 0], panic |-> TRUE, retire |-> FALSE]
  ELSE IF debug_assertions /\ success /\ seen.num_ok = U8 - 1
    THEN [bio |-> [got EXCEPT !.ctx = c1, !.arm = 0], panic |-> TRUE, retire |-> FALSE]
  ELSE IF d.kind = "Complete"
    THEN [bio |-> free(io_complete([got EXCEPT !.ctx = c2], d.status, c, pending)),
          panic |-> FALSE, retire |-> FALSE]
  ELSE IF d.kind = "Retire" /\ success
    THEN [bio |-> [got EXCEPT !.ctx = c2], panic |-> TRUE, retire |-> FALSE]
  ELSE IF d.kind = "Retire" /\ d.status = "Success"
    THEN [bio |-> free(io_complete(sending([got EXCEPT !.ctx = c2]),
                                   "Success", c, pending)),
          panic |-> FALSE, retire |-> sent]
  ELSE IF d.kind = "Retire"
    THEN [bio |-> free(sending([got EXCEPT !.ctx = [c2 EXCEPT !.status = "Pending"]])),
          panic |-> FALSE, retire |-> sent]
  ELSE [bio |-> free([got EXCEPT !.ctx = c2]), panic |-> FALSE, retire |-> FALSE]

\* ------------------------------------------------------------------------
\* The nexus, its children and its channels
\* ------------------------------------------------------------------------

\* the handles a rebuilt channel holds: the nexus' children that are open
open_children(chs, st) == SelectSeq(chs, LAMBDA c : st[c] = "Open")

\* Nexus::reconfigure: every core's channel is replaced by a fresh view
reconfigure(chs, st) ==
  [core \in CoreIds |->
     [readers |-> open_children(chs, st), writers |-> open_children(chs, st)]]

\* Nexus::status
status(chs, st) ==
  IF open_children(chs, st) = <<>> THEN "Faulted"
  ELSE IF Len(open_children(chs, st)) = Len(chs) THEN "Online"
  ELSE "Degraded"

\* nexus_lookup(&nexus): does the name resolve
nexus_lookup == nexus_registered

\* nexus.child_lookup(&child.name()): does the nexus hold the child
child_lookup(c) == \E i \in 1..Len(children) : children[i] = c

\* compare_and_swap as it would be if it only loaded the state
compare_and_swap_load(st, c, current, new) == st

\* child.state.compare_and_swap(current, new): the states afterwards
compare_and_swap(st, c, current, new) ==
  IF st[c] = current THEN [st EXCEPT ![c] = new] ELSE st

\* one child_retire future of child c moves from stage `from` to stage `to`
move(t, c, from, to) ==
  [t EXCEPT ![c] = [@ EXCEPT ![from] = @ - 1, ![to] = @ + 1]]

\* ------------------------------------------------------------------------
\* The initial state: a registered nexus with all its children open, and
\* every core's channel holding all of them
\* ------------------------------------------------------------------------
Init ==
  /\ debug_assertions \in BOOLEAN
  /\ panicked = FALSE
  /\ nexus_registered = TRUE
  /\ children = [i \in 1..NumChildren |-> i]
  /\ child_state = [c \in Child |-> "Open"]
  /\ bdev = [c \in Child |-> TRUE]
  /\ pause_count = 0
  /\ channel = reconfigure([i \in 1..NumChildren |-> i], [c \in Child |-> "Open"])
  /\ bio = [r \in Req |-> NoBio]
  /\ tasks = [c \in Child |-> [s \in Stage |-> 0]]

\* ------------------------------------------------------------------------
\* Admission and dispatch
\* ------------------------------------------------------------------------

\* the bdev layer hands request r to the nexus on `core`
Admissible(r) ==
  /\ ~panicked
  /\ nexus_registered
  /\ pause_count = 0
  /\ ~bio[r].admitted
  /\ \A q \in Req : q < r => bio[q].admitted

fresh(t, core) ==
  [NoBio EXCEPT !.admitted = TRUE, !.io_type = t, !.core = core,
                !.ctx = nexus_bio_setup(core)]

\* nexus_submit_io, IoType::Read
SubmitRead(r, core) ==
  /\ Admissible(r)
  /\ \E pick \in IF child_select(channel[core].readers) = {}
                   THEN {0} ELSE child_select(channel[core].readers) :
       \E e \in IF pick = 0 THEN {"none"} ELSE Errno \cup {"none"} :
         bio' = [bio EXCEPT ![r] = readv(fresh("Read", core), pick, e)]
  /\ UNCHANGED <<debug_assertions, panicked, nexus_registered, children,
                 child_state, bdev, pause_count, channel, tasks>>

\* nexus_submit_io, IoType::Write | WriteZeros | Reset | Unmap
SubmitAll(r, t, core) ==
  /\ Admissible(r)
  /\ t \in FanOut
  /\ LET writers == channel[core].writers IN
     \E k \in 0..Len(writers) :
       \E e \in IF k = Len(writers) THEN {"none"} ELSE Errno :
         LET out == submit_all(fresh(t, core), writers, k, e) IN
         /\ bio' = [bio EXCEPT ![r] = out.bio]
         /\ panicked' = out.panic
  /\ UNCHANGED <<debug_assertions, nexus_registered, children, child_state,
                 bdev, pause_count, channel, tasks>>

\* nexus_submit_io, IoType::Flush, IoType::NvmeAdmin and the catch-all arm
SubmitOther(r, t, core) ==
  /\ Admissible(r)
  /\ t \in IoType \ (FanOut \cup {"Read"})
  /\ bio' = [bio EXCEPT ![r] =
       IF t = "Flush"
         THEN io_complete(fresh(t, core), "Success", 0, {})
       ELSE IF t = "NvmeAdmin"
         THEN io_complete([fresh(t, core) EXCEPT !.errno = "EINVAL"], "Failed", 0, {})
       ELSE io_complete([fresh(t, core) EXCEPT !.errno = "EOPNOTSUPP"], "Failed", 0, {})]
  /\ UNCHANGED <<debug_assertions, panicked, nexus_registered, children,
                 child_state, bdev, pause_count, channel, tasks>>

\* ------------------------------------------------------------------------
\* Completion
\* ------------------------------------------------------------------------

\* what the device reports for a child IO
Completions ==
  {<<TRUE, "Success">>, <<FALSE, "InvalidOpcode">>, <<FALSE, "InternalDeviceError">>}

\* NexusBio::child_completion: the device calls back for child c of request r
ChildCompletion(r, c) ==
  /\ ~panicked
  /\ c \in bio[r].child_ios
  /\ \E cpl \in Completions :
       \E seen \in ctx_read(bio[r]) :
         LET out == complete(bio[r], c, cpl[1], cpl[2], seen) IN
         /\ bio' = [bio EXCEPT ![r] = out.bio]
         /\ panicked' = out.panic
         /\ tasks' = IF out.retire
                       THEN [tasks EXCEPT ![c]["queued"] = @ + 1]
                       ELSE tasks
  /\ UNCHANGED <<debug_assertions, nexus_registered, children, child_state,
                 bdev, pause_count, channel>>

\* ------------------------------------------------------------------------
\* NexusBio::child_retire, one action per poll of the future
\* ------------------------------------------------------------------------

\* the first poll as it would be if the compare-and-swap was done on the
\* captured child before the lookups
RetireStart_swaps_first(c) ==
  /\ ~panicked
  /\ tasks[c]["queued"] > 0
  /\ child_state' = compare_and_swap(child_state, c, "Open", "Faulted")
  /\ tasks' = IF ~nexus_lookup \/ ~child_lookup(c)
                THEN move(tasks, c, "queued", "unresolved")
              ELSE IF child_state[c] = "Open"
                THEN move(tasks, c, "queued", "pause")
              ELSE move(tasks, c, "queued", "lost")
  /\ UNCHANGED <<debug_assertions, panicked, nexus_registered, children,
                 bdev, pause_count, channel, bio>>

\* first poll: lookups and the compare-and-swap, up to nexus.pause().await
RetireStart(c) ==
  /\ ~panicked
  /\ tasks[c]["queued"] > 0
  /\ IF ~nexus_lookup \/ ~child_lookup(c)
       THEN /\ child_state' = child_state
            /\ tasks' = move(tasks, c, "queued", "unresolved")
       ELSE /\ child_state' = compare_and_swap(child_state, c, "Open", "Faulted")
            /\ tasks' = IF child_state[c] = "Open"
                          THEN move(tasks, c, "queued", "pause")
                          ELSE move(tasks, c, "queued", "lost")
  /\ UNCHANGED <<debug_assertions, panicked, nexus_registered, children,
                 bdev, pause_count, channel, bio>>

\* nexus.pause() returned; nexus.reconfigure(DrEvent::ChildFault) is awaited
RetirePaused(c) ==
  /\ ~panicked
  /\ tasks[c]["pause"] > 0
  /\ pause_count' = pause_count + 1
  /\ tasks' = move(tasks, c, "pause", "reconfigure")
  /\ UNCHANGED <<debug_assertions, panicked, nexus_registered, children,
                 child_state, bdev, channel, bio>>

\* the poll after nexus.reconfigure() as it would be if reconfigure left the
\* channels as they were
RetireReconfigured_keeps_channels(c) ==
  /\ ~panicked
  /\ tasks[c]["reconfigure"] > 0
  /\ tasks' = move(tasks, c, "reconfigure", "destroy")
  /\ UNCHANGED <<debug_assertions, panicked, nexus_registered, children,
                 child_state, bdev, pause_count, channel, bio>>

\* nexus.reconfigure() returned; child.destroy() is awaited
RetireReconfigured(c) ==
  /\ ~panicked
  /\ tasks[c]["reconfigure"] > 0
  /\ channel' = reconfigure(children, child_state)
  /\ tasks' = move(tasks, c, "reconfigure", "destroy")
  /\ UNCHANGED <<debug_assertions, panicked, nexus_registered, children,
                 child_state, bdev, pause_count, bio>>

\* the poll after child.destroy() as it would be if an Err of destroy ended
\* the future (as the ? operator would)
RetireDestroyed_returns_on_err(c) ==
  /\ ~panicked
  /\ tasks[c]["destroy"] > 0
  /\ \E ok \in BOOLEAN :
       /\ bdev' = IF ok THEN [bdev EXCEPT ![c] = FALSE] ELSE bdev
       /\ tasks' = IF ok THEN move(tasks, c, "destroy", "resume")
                         ELSE move(tasks, c, "destroy", "done")
  /\ UNCHANGED <<debug_assertions, panicked, nexus_registered, children,
                 child_state, pause_count, channel, bio>>

\* child.destroy() returned, Ok (the bdev is gone) or Err (logged, nothing
\* else); nexus.resume() is awaited
RetireDestroyed(c) ==
  /\ ~panicked
  /\ tasks[c]["destroy"] > 0
  /\ \E ok \in BOOLEAN :
       bdev' = IF ok THEN [bdev EXCEPT ![c] = FALSE] ELSE bdev
  /\ tasks' = move(tasks, c, "destroy", "resume")
  /\ UNCHANGED <<debug_assertions, panicked, nexus_registered, children,
                 child_state, pause_count, channel, bio>>

\* nexus.resume() returned; the future finishes
RetireResumed(c) ==
  /\ ~panicked
  /\ tasks[c]["resume"] > 0
  /\ pause_count' = pause_count - 1
  /\ tasks' = move(tasks, c, "resume", "done")
  /\ UNCHANGED <<debug_assertions, panicked, nexus_registered, children,
                 child_state, bdev, channel, bio>>

\* ------------------------------------------------------------------------
\* The control plane, concurrently with all of the above
\* ------------------------------------------------------------------------

\* the nexus is destroyed: its name no longer resolves
NexusDestroy ==
  /\ ~panicked
  /\ nexus_registered
  /\ nexus_registered' = FALSE
  /\ UNCHANGED <<debug_assertions, panicked, children, child_state, bdev,
                 pause_count, channel, bio, tasks>>

\* child c is removed from the nexus: its name no longer resolves in it
ChildRemove(c) ==
  /\ ~panicked
  /\ nexus_registered
  /\ \E i \in 1..Len(children) : children[i] = c
  /\ children' = SelectSeq(children, LAMBDA x : x # c)
  /\ child_state' = [child_state EXCEPT ![c] = "Closed"]
  /\ bdev' = [bdev EXCEPT ![c] = FALSE]
  /\ channel' = reconfigure(children', child_state')
  /\ UNCHANGED <<debug_assertions, panicked, nexus_registered, pause_count,
                 bio, tasks>>

Next ==
  \/ \E r \in Req, core \in CoreIds : SubmitRead(r, core)
  \/ \E r \in Req, t \in FanOut, core \in CoreIds : SubmitAll(r, t, core)
  \/ \E r \in Req, t \in IoType, core \in CoreIds : SubmitOther(r, t, core)
  \/ \E r \in Req, c \in Child : ChildCompletion(r, c)
  \/ \E c \in Child : RetireStart(c)
  \/ \E c \in Child : RetirePaused(c)
  \/ \E c \in Child : RetireReconfigured(c)
  \/ \E c \in Child : RetireDestroyed(c)
  \/ \E c \in Child : RetireResumed(c)
  \/ NexusDestroy
  \/ \E c \in Child : ChildRemove(c)

Spec == Init /\ [][Next]_vars

\* The device layer calls back once for every accepted submission and the
\* master reactor polls every future it holds.
Fairness ==
  /\ \A r \in Req, c \in Child : WF_vars(ChildCompletion(r, c))
  /\ \A c \in Child :
       /\ WF_vars(RetireStart(c))
       /\ WF_vars(RetirePaused(c))
       /\ WF_vars(RetireReconfigured(c))
       /\ WF_vars(RetireDestroyed(c))
       /\ WF_vars(RetireResumed(c))

FairSpec == Spec /\ Fairness

\* ------------------------------------------------------------------------
\* The retirement protocol on its own: the futures that the failed
\* completions of past requests have sent to the master reactor, and the
\* control plane
\* ------------------------------------------------------------------------
InitRetire ==
  /\ debug_assertions \in BOOLEAN
  /\ panicked = FALSE
  /\ nexus_registered = TRUE
  /\ children = [i \in 1..NumChildren |-> i]
  /\ child_state = [c \in Child |-> "Open"]
  /\ bdev = [c \in Child |-> TRUE]
  /\ pause_count = 0
  /\ channel = reconfigure([i \in 1..NumChildren |-> i], [c \in Child |-> "Open"])
  /\ bio = [r \in Req |-> NoBio]
  /\ tasks \in [Child -> {[s \in Stage |-> IF s = "queued" THEN n ELSE 0] :
                            n \in 0..MaxQueued}]

NextRetire ==
  \/ \E c \in Child : RetireStart(c)
  \/ \E c \in Child : RetirePaused(c)
  \/ \E c \in Child : RetireReconfigured(c)
  \/ \E c \in Child : RetireDestroyed(c)
  \/ \E c \in Child : RetireResumed(c)
  \/ NexusDestroy
  \/ \E c \in Child : ChildRemove(c)

SpecRetire == InitRetire /\ [][NextRetire]_vars


\* ------------------------------------------------------------------------
\* Requests admitted while and after the futures earlier requests sent are
\* polled: at most one future per child is in the reactor's queue at the
\* start, and the requests are dispatched but their completions not followed
\* ------------------------------------------------------------------------

InitAfter ==
  /\ debug_assertions \in BOOLEAN
  /\ panicked = FALSE
  /\ nexus_registered = TRUE
  /\ children = [i \in 1..NumChildren |-> i]
  /\ child_state = [c \in Child |-> "Open"]
  /\ bdev = [c \in Child |-> TRUE]
  /\ pause_count = 0
  /\ channel = reconfigure([i \in 1..NumChildren |-> i], [c \in Child |-> "Open"])
  /\ bio = [r \in Req |-> NoBio]
  /\ tasks \in [Child -> {[s \in Stage |-> IF s = "queued" THEN n ELSE 0] :
                            n \in {0, 1}}]

NextAfter ==
  \/ \E r \in Req, core \in CoreIds : SubmitRead(r, core)
  \/ \E r \in Req, t \in IoType, core \in CoreIds : SubmitAll(r, t, core)
  \/ \E c \in Child : RetireStart(c)
  \/ \E c \in Child : RetirePaused(c)
  \/ \E c \in Child : RetireReconfigured(c)
  \/ \E c \in Child : RetireDestroyed(c)
  \/ \E c \in Child : RetireResumed(c)
  \/ NexusDestroy
  \/ \E c \in Child : ChildRemove(c)

SpecAfter == InitAfter /\ [][NextAfter]_vars

\* ------------------------------------------------------------------------
\* The completion engine alone: one dispatch of a fan-out request, taken
\* twice, each copy receiving its completions in an order of its own
\* ------------------------------------------------------------------------

Copies == {1, 2}

\* two requests for which submit_all recorded the same thing: the first k
\* writers accepted, the next one rejected with e
InitOrder ==
  /\ debug_assertions \in BOOLEAN
  /\ panicked = FALSE
  /\ nexus_registered = TRUE
  /\ children = [i \in 1..NumChildren |-> i]
  /\ child_state = [c \in Child |-> "Open"]
  /\ bdev = [c \in Child |-> TRUE]
  /\ pause_count = 0
  /\ channel = reconfigure([i \in 1..NumChildren |-> i], [c \in Child |-> "Open"])
  /\ \E t \in FanOut, core \in CoreIds :
       LET writers == channel[core].writers IN
       \E k \in 1..Len(writers) :
         \E e \in IF k = Len(writers) THEN {"none"} ELSE Errno :
           bio = [s \in Copies |-> submit_all(fresh(t, core), writers, k, e).bio]
  /\ tasks = [c \in Child |-> [s \in Stage |-> 0]]

NextOrder ==
  \E s \in Copies, c \in Child : ChildCompletion(s, c)

SpecOrder == InitOrder /\ [][NextOrder]_vars

\* ------------------------------------------------------------------------
\* Properties
\* ------------------------------------------------------------------------

\* request r went through submit_all
IsFanOut(r) == bio[r].admitted /\ bio[r].io_type \in FanOut

\* submit_all of r had every submission accepted, and there was at least one
FullyAccepted(r) ==
  IsFanOut(r) /\ bio[r].errno = "none" /\ bio[r].submitted # {}

\* the children of r whose callback has been processed, and those among them
\* that reported success
Completed(r) == {c \in Child : bio[r].result[c] # "none"}
Succeeded(r) == {c \in Child : bio[r].result[c] = "ok"}

\* the child_retire futures ever sent for child c
Sent(c) ==
  tasks[c]["queued"] + tasks[c]["pause"] + tasks[c]["reconfigure"]
    + tasks[c]["destroy"] + tasks[c]["resume"] + tasks[c]["done"]
    + tasks[c]["unresolved"] + tasks[c]["lost"]

\* the child_retire futures of child c that saw Open in the compare-and-swap
Passed(c) ==
  tasks[c]["pause"] + tasks[c]["reconfigure"] + tasks[c]["destroy"]
    + tasks[c]["resume"] + tasks[c]["done"]

\* C1: no request is finalized (ok / fail / no_mem) more than once.
C1_FinalizedAtMostOnce ==
  \A r \in Req : Len(bio[r].answered) <= 1

\* C2: whenever a request is finalized, no child IO accepted for it is still
\* waiting for its completion callback to be processed.
C2_FinalizedOnlyWhenDrained ==
  \A r \in Req :
    \A i \in 1..Len(bio[r].answered) : bio[r].answered[i].pending = 0

\* C3: every request handed to nexus_submit_io is eventually finalized.
C3_EventuallyFinalized ==
  \A r \in Req : bio[r].admitted ~> (bio[r].answered # <<>>)

\* C4: a fan-out request whose k >= 1 submissions were all accepted is
\* finalized in the handler of its k-th completion and in no other step, as
\* Success if and only if some completion reported success and as Failed if
\* and only if every completion reported failure.
C4_FullFanOutOutcome ==
  \A r \in Req :
    FullyAccepted(r) =>
      /\ (bio[r].answered = <<>>) <=> (bio[r].child_ios # {})
      /\ bio[r].answered # <<>> =>
           /\ Len(bio[r].answered) = 1
           /\ bio[r].answered[1].pending = 0
           /\ bio[r].answered[1].by \in bio[r].submitted
           /\ Completed(r) = bio[r].submitted
           /\ bio[r].answered[1].status \in {"Success", "Failed"}
           /\ (bio[r].answered[1].status = "Success") <=> (Succeeded(r) # {})
           /\ (bio[r].answered[1].status = "Failed") <=> (Succeeded(r) = {})

\* a fan-out of three children, all accepted, is finalized Success after two
\* successes and one failure
C4_Witness ==
  \E r \in Req :
    /\ FullyAccepted(r)
    /\ Cardinality(bio[r].submitted) = 3
    /\ Cardinality(Succeeded(r)) = 2
    /\ bio[r].child_ios = {}
    /\ bio[r].answered # <<>>

\* C5: a fan-out request with an accepted submission and a later one rejected
\* with ENOMEM is finalized as NoMemory, and as nothing else.
C5_PartialNoMemoryOutcome ==
  \A r \in Req :
    (IsFanOut(r) /\ bio[r].errno = "ENOMEM" /\ bio[r].submitted # {}) =>
      \A i \in 1..Len(bio[r].answered) : bio[r].answered[i].status = "NoMemory"

\* C6: in a fully accepted fan-out of k >= 2 children with a successful
\* completion, a child_retire future is sent for a child in the handler of
\* its completion exactly when that completion failed with another status
\* than invalid opcode; the request is finalized Success in the handler of
\* its last completion, retirement or not.
C6_RetireOnGenuineFailure ==
  /\ \A c \in Child :
       Sent(c) = Cardinality({r \in Req : c \in bio[r].retired})
  /\ \A r \in Req :
       (FullyAccepted(r) /\ Cardinality(bio[r].submitted) >= 2
          /\ Succeeded(r) # {}) =>
         /\ bio[r].retired =
              {c \in Completed(r) : bio[r].result[c] \notin {"ok", "InvalidOpcode"}}
         /\ bio[r].child_ios # {} => bio[r].answered = <<>>
         /\ bio[r].child_ios = {} =>
              /\ Len(bio[r].answered) = 1
              /\ bio[r].answered[1].status = "Success"
              /\ bio[r].answered[1].pending = 0
              /\ bio[r].answered[1].by \in bio[r].submitted

\* a fan-out of three is finalized after one success, one invalid-opcode
\* failure and one device error: only the last has a future sent
C6_Witness ==
  \E r \in Req :
    /\ FullyAccepted(r)
    /\ bio[r].child_ios = {}
    /\ \E a, b, c \in bio[r].submitted :
         /\ bio[r].result[a] = "ok"
         /\ bio[r].result[b] = "InvalidOpcode"
         /\ bio[r].result[c] = "InternalDeviceError"
         /\ bio[r].retired = {c}
         /\ Sent(c) = 1

\* a Write that all three children of the nexus accepted and failed with a
\* device error, all callbacks processed
AllThreeFailed(r) ==
  /\ FullyAccepted(r)
  /\ bio[r].io_type = "Write"
  /\ Cardinality(bio[r].submitted) = 3
  /\ bio[r].child_ios = {}
  /\ \A c \in bio[r].submitted : bio[r].result[c] = "InternalDeviceError"

\* child_retire futures of child c have all been polled to their end
Settled(c) ==
  Sent(c) = tasks[c]["done"] + tasks[c]["unresolved"] + tasks[c]["lost"]

\* C7 (as claimed): when all three completions of a write to a 3-replica
\* nexus report a device error, the request is finalized Failed, a retirement
\* is attempted for each of the three children, and once the retirements
\* have run every child is Faulted and the nexus has no usable child.
C7_AllFailedRetiresAll ==
  \A r \in Req :
    AllThreeFailed(r) =>
      /\ Len(bio[r].answered) = 1
      /\ bio[r].answered[1].status = "Failed"
      /\ bio[r].retired = bio[r].submitted
      /\ (\A c \in bio[r].submitted : Settled(c) /\ tasks[c]["done"] = 1) =>
           /\ \A c \in bio[r].submitted : child_state[c] = "Faulted"
           /\ status(children, child_state) = "Faulted"

\* C7 (amended): the request is finalized Failed in the handler of the last
\* completion; a retirement is attempted for the two children whose
\* completions came first and none for the child of the last completion;
\* each of the two futures is eventually polled, and its child is Faulted
\* (or since removed) from then on if both lookups resolved; the third is not made Faulted by this
\* request, so that the nexus is not Faulted while it holds that child and
\* no other request has sent a future for it.
C7_Outcome ==
  \A r \in Req :
    AllThreeFailed(r) =>
      /\ Len(bio[r].answered) = 1
      /\ bio[r].answered[1].status = "Failed"
      /\ bio[r].answered[1].pending = 0
      /\ bio[r].retired = bio[r].submitted \ {bio[r].answered[1].by}
      /\ Cardinality(bio[r].retired) = 2
      /\ \A c \in bio[r].retired :
           (tasks[c]["queued"] = 0 /\ tasks[c]["unresolved"] = 0) =>
             child_state[c] \in {"Faulted", "Closed"}
      /\ (\A q \in Req \ {r} : bio[r].answered[1].by \notin bio[q].retired) =>
           /\ child_state[bio[r].answered[1].by] # "Faulted"
           /\ child_lookup(bio[r].answered[1].by) =>
                status(children, child_state) # "Faulted"

C7_AllFailedRetiresAllButLast ==
  /\ []C7_Outcome
  /\ \A r \in Req :
       AllThreeFailed(r) ~>
         (\A c \in bio[r].retired :
            /\ tasks[c]["queued"] = 0
            /\ tasks[c]["unresolved"] = 0 => child_state[c] \in {"Faulted", "Closed"})

\* all three failed, both futures have run to their end: two children are
\* Faulted, one is Open and the nexus is Degraded
C7_Witness ==
  \E r \in Req :
    /\ AllThreeFailed(r)
    /\ \A c \in bio[r].retired : tasks[c]["done"] = 1
    /\ Cardinality({c \in Child : child_state[c] = "Faulted"}) = 2
    /\ child_state[bio[r].answered[1].by] = "Open"
    /\ status(children, child_state) = "Degraded"

\* C8: of the child_retire futures of one child that get to the
\* compare-and-swap, exactly one sees Open, makes the child Faulted and goes
\* on to pause, reconfigure and destroy; every other one sees another state
\* and returns. So no child is retired more than once.
C8_OneRetirementPerChild ==
  /\ [](\A c \in Child :
          /\ Passed(c) <= 1
          /\ tasks[c]["lost"] >= 1 => Passed(c) = 1
          /\ Passed(c) = 1 => child_state[c] # "Open")
  /\ [][\A c \in Child :
          /\ Passed(c)' > Passed(c) =>
               (child_state[c] = "Open" /\ child_state'[c] = "Faulted")
          /\ tasks'[c]["lost"] > tasks[c]["lost"] =>
               (child_state[c] # "Open" /\ child_state' = child_state)]_vars

\* two futures were sent for one child: one went through, the other lost
\* the compare-and-swap
C8_Witness ==
  \E c \in Child :
    /\ tasks[c]["lost"] = 1
    /\ tasks[c]["done"] = 1
    /\ child_state[c] = "Faulted"

\* C9: a fan-out request of which no submission was accepted is finalized
\* by the dispatch step, once, with in_flight 0: NoMemory after ENOMEM,
\* Failed otherwise (another errno, or no writer in the channel).
C9_NothingAcceptedOutcome ==
  \A r \in Req :
    (IsFanOut(r) /\ bio[r].submitted = {}) =>
      /\ bio[r].answered =
           <<[status |-> IF bio[r].errno = "ENOMEM" THEN "NoMemory" ELSE "Failed",
              by |-> 0, pending |-> 0]>>
      /\ bio[r].ctx.in_flight = 0

\* request r needs no child IO: a Flush, an NvmeAdmin, an unrecognized
\* operation, or a Read for which child_select found no reader
NoChildIo(r) ==
  /\ bio[r].admitted
  /\ \/ bio[r].io_type \in {"Flush", "NvmeAdmin", "Invalid"}
     \/ bio[r].io_type = "Read" /\ bio[r].errno = "ENODEV"

\* C10: requests that need no child IO are finalized by the dispatch step
\* with no submission: a Read on a channel without readers Failed (ENODEV),
\* a Flush Success, an NvmeAdmin or unrecognized operation Failed; in_flight
\* stays 0 and no callback is outstanding, then or later.
C10_NoChildIoFinalizedAtDispatch ==
  /\ [](\A r \in Req :
          NoChildIo(r) =>
            /\ bio[r].answered =
                 <<[status |-> IF bio[r].io_type = "Flush" THEN "Success" ELSE "Failed",
                    by |-> 0, pending |-> 0]>>
            /\ bio[r].submitted = {}
            /\ bio[r].child_ios = {}
            /\ bio[r].ctx.in_flight = 0)
  /\ [][\A r \in Req :
          (~bio[r].admitted /\ bio'[r].admitted /\ bio'[r].io_type = "Read"
             /\ channel[bio'[r].core].readers = <<>>) =>
            (bio'[r].errno = "ENODEV" /\ NoChildIo(r)')]_vars

\* a Read was admitted after the channel lost its last reader
C10_Witness ==
  \E r \in Req :
    /\ bio[r].io_type = "Read"
    /\ NoChildIo(r)
    /\ channel[bio[r].core].readers = <<>>
    /\ bio[r].answered # <<>>

\* C11: the child IO of every accepted submission is released in the handler
\* step that processes its completion callback, whichever arm of disposition
\* that handler takes: it is held until its callback is processed, and it is
\* not held once its callback has been processed.
C11_ChildIoFreedInItsHandler ==
  \A r \in Req :
    \A c \in bio[r].submitted :
      (c \in bio[r].child_ios) <=> (bio[r].result[c] = "none")

\* C14: the handler of a completion never takes the catch-all arm of
\* disposition.
C14_NoCatchAllArm ==
  \A r \in Req : bio[r].arm # 7

\* C15: a handler that takes a Retire arm of disposition is the handler of a
\* completion that reported failure.
C15_RetireOnlyOnFailure ==
  [][\A r \in Req :
       \A c \in Child :
         (/\ bio[r].result[c] = "none"
          /\ bio'[r].result[c] # "none"
          /\ bio'[r].arm \in {3, 4}) => bio'[r].result[c] # "ok"]_vars

\* the changes of the status of a request context that C16 allows
Worsens ==
  {<<"Pending", "Failed">>, <<"Pending", "NoMemory">>, <<"Failed", "Pending">>}

\* C16: the status of a request context changes only from Pending to Failed,
\* from Pending to NoMemory, and from Failed back to Pending; a recorded
\* NoMemory is never replaced.
C16_StatusOnlyWorsens ==
  [][\A r \in Req :
       \/ bio'[r].ctx.status = bio[r].ctx.status
       \/ <<bio[r].ctx.status, bio'[r].ctx.status>> \in Worsens]_vars

\* the context of request r is live: the request has not been finalized, or
\* it was finalized when none of its child IOs was outstanding, so that no
\* callback reads the context after the upper layer got it back
Live(r) ==
  bio[r].answered = <<>> \/ bio[r].answered[1].pending = 0

\* C17: between handler steps in_flight of a live request is the number of
\* its accepted child IOs whose callback has not been processed (so it never
\* wraps below zero), num_ok is the number of processed callbacks that
\* reported success, and num_ok, the failed callbacks and in_flight add up to
\* the number of accepted submissions.
C17_InFlightCounts ==
  \A r \in Req :
    (bio[r].admitted /\ Live(r)) =>
      /\ bio[r].ctx.in_flight = Cardinality(bio[r].submitted \ Completed(r))
      /\ bio[r].ctx.num_ok = Cardinality(Succeeded(r))
      /\ bio[r].ctx.num_ok + Cardinality(Completed(r) \ Succeeded(r))
           + bio[r].ctx.in_flight = Cardinality(bio[r].submitted)

\* a fan-out of three accepted children with one success and one failure
\* processed and one child IO outstanding
C17_Witness ==
  \E r \in Req :
    /\ bio[r].admitted
    /\ Live(r)
    /\ IsFanOut(r)
    /\ Cardinality(bio[r].submitted) = 3
    /\ Cardinality(Succeeded(r)) = 1
    /\ Cardinality(Completed(r)) = 2
    /\ bio[r].ctx.in_flight = 1

\* C20: a Read on a channel with a reader submits to one child, a reader of
\* that channel, and to no other child at any point; if the submission is
\* accepted, in_flight is 1 until the completion of that child IO is
\* processed, and the handler of that completion finalizes the request,
\* Success if the completion reported success and Failed otherwise, without
\* retiring the child.
C20_ReadOneChild ==
  /\ [](\A r \in Req :
          (bio[r].admitted /\ bio[r].io_type = "Read") =>
            /\ Cardinality(bio[r].submitted) <= 1
            /\ bio[r].retired = {}
            /\ \A c \in bio[r].submitted :
                 /\ bio[r].child_ios = {c} =>
                      /\ bio[r].answered = <<>>
                      /\ bio[r].result[c] = "none"
                      /\ bio[r].ctx.in_flight = 1
                 /\ bio[r].child_ios # {c} =>
                      /\ bio[r].child_ios = {}
                      /\ bio[r].result[c] # "none"
                      /\ bio[r].answered =
                           <<[status |-> IF bio[r].result[c] = "ok"
                                           THEN "Success" ELSE "Failed",
                              by |-> c,
                              pending |-> 0]>>)
  /\ [][\A r \in Req :
          (bio'[r].io_type = "Read" /\ bio'[r].submitted # bio[r].submitted) =>
            /\ ~bio[r].admitted
            /\ bio'[r].submitted \subseteq
                 child_select(channel[bio'[r].core].readers)]_vars

\* a read on a channel with three readers was accepted by one of them, its
\* completion reported failure and the request was finalized Failed
C20_Witness ==
  \E r \in Req :
    /\ bio[r].admitted
    /\ bio[r].io_type = "Read"
    /\ Len(channel[bio[r].core].readers) = 3
    /\ \E c \in Child :
         /\ bio[r].submitted = {c}
         /\ bio[r].result[c] \notin {"none", "ok"}
         /\ bio[r].child_ios = {}
         /\ bio[r].answered # <<>>

\* the outcome of request r: the status its first finalization reported to
\* the upper layer
Outcome(r) ==
  IF bio[r].answered = <<>> THEN "none" ELSE bio[r].answered[1].status

\* C18: two fan-out requests with the same dispatch record (accepted
\* children, errno of the rejected submission) whose accepted children
\* reported the same successes and failures, all of them processed, have the
\* same outcome, whatever the order in which each received its completions.
C18_OrderIndependent ==
  \A r, q \in DOMAIN bio :
    (/\ IsFanOut(r) /\ IsFanOut(q)
     /\ bio[r].submitted = bio[q].submitted
     /\ bio[r].errno = bio[q].errno
     /\ bio[r].child_ios = {} /\ bio[q].child_ios = {}
     /\ Succeeded(r) = Succeeded(q)) =>
      Outcome(r) = Outcome(q)

\* the child_retire futures of children 1..n that are between the return of
\* nexus.pause() and the return of nexus.resume()
RECURSIVE Pausing(_)
Pausing(n) ==
  IF n = 0 THEN 0
  ELSE tasks[n]["reconfigure"] + tasks[n]["destroy"] + tasks[n]["resume"]
         + Pausing(n - 1)

\* child c is in the read set or the write set of some core's channel
InChannel(c) ==
  \E core \in CoreIds :
    \/ \E i \in 1..Len(channel[core].readers) : channel[core].readers[i] = c
    \/ \E i \in 1..Len(channel[core].writers) : channel[core].writers[i] = c

\* C12: a child_retire future that saw Open in the compare-and-swap pauses
\* the nexus, then rebuilds the channels, then destroys the child, then
\* resumes the nexus: the nexus is paused once for every future between
\* pause and resume, the child is out of every channel from the return of
\* reconfigure on, and its bdev is not destroyed by the future before that.
\* The step that takes the result of destroy changes no request, no channel
\* and no child state, whatever the result. Every such future finishes
\* (resume has returned) unless the process has panicked meanwhile.
C12_RetireStepsInOrder ==
  /\ [](/\ pause_count = Pausing(NumChildren)
        /\ \A c \in Child :
             /\ (tasks[c]["pause"] + tasks[c]["reconfigure"] > 0
                   /\ child_lookup(c)) => bdev[c]
             /\ tasks[c]["destroy"] + tasks[c]["resume"] + tasks[c]["done"] > 0
                  => ~InChannel(c))
  /\ [][\A c \in Child :
          tasks'[c]["resume"] > tasks[c]["resume"] =>
            /\ tasks'[c]["destroy"] < tasks[c]["destroy"]
            /\ bio' = bio
            /\ channel' = channel
            /\ child_state' = child_state
            /\ pause_count' = pause_count]_vars
  /\ <>[](\A c \in Child :
             Passed(c) > 0 => (tasks[c]["done"] > 0 \/ panicked))

\* a retirement finished although destroy failed: the child is still held by
\* the nexus with its bdev, it is in no channel, the nexus is not paused, and
\* the request that retired it was finalized Success
C12_Witness ==
  \E c \in Child :
    /\ tasks[c]["done"] > 0
    /\ child_lookup(c)
    /\ bdev[c]
    /\ ~InChannel(c)
    /\ pause_count = 0
    /\ \E r \in Req :
         /\ c \in bio[r].retired
         /\ bio[r].answered # <<>>
         /\ bio[r].answered[1].status = "Success"

\* C13: a child that a child_retire future made Faulted is never Open again;
\* from the return of that future's reconfigure on it is in no core's
\* channel; and a request admitted from then on submits no child IO to it.
C13_FaultedStaysOut ==
  /\ [](\A c \in Child :
          /\ Passed(c) > 0 => child_state[c] # "Open"
          /\ tasks[c]["destroy"] + tasks[c]["resume"] + tasks[c]["done"] > 0
               => ~InChannel(c))
  /\ [][\A c \in Child :
          /\ child_state[c] # "Open" => child_state'[c] # "Open"
          /\ \A r \in Req :
               (/\ ~bio[r].admitted
                /\ bio'[r].admitted
                /\ tasks[c]["destroy"] + tasks[c]["resume"] + tasks[c]["done"] > 0)
                 => c \notin bio'[r].submitted]_vars

\* three replicas, the retirement of child 2 has finished, children 1 and 3
\* are open, and a write admitted afterwards went to exactly children 1 and 3
C13_Witness ==
  /\ tasks[2]["done"] > 0
  /\ child_state = [c \in Child |-> IF c = 2 THEN "Faulted" ELSE "Open"]
  /\ \E r \in Req :
       /\ IsFanOut(r)
       /\ bio[r].errno = "none"
       /\ bio[r].submitted = {1, 3}

\* C19: a child_retire future that returns without retiring (the nexus or
\* the child no longer resolves, or the compare-and-swap saw another state
\* than Open) changes no child state, no channel, no request, not the pause
\* state of the nexus and no bdev in that poll, and takes no later step.
C19_AbandonChangesNothing ==
  [][\A c \in Child :
       /\ tasks'[c]["unresolved"] >= tasks[c]["unresolved"]
       /\ tasks'[c]["lost"] >= tasks[c]["lost"]
       /\ tasks'[c]["unresolved"] > tasks[c]["unresolved"] =>
            (~nexus_lookup \/ ~child_lookup(c))
       /\ tasks'[c]["lost"] > tasks[c]["lost"] =>
            (nexus_lookup /\ child_lookup(c) /\ child_state[c] # "Open")
       /\ (\/ tasks'[c]["unresolved"] > tasks[c]["unresolved"]
           \/ tasks'[c]["lost"] > tasks[c]["lost"]) =>
            /\ tasks'[c]["queued"] < tasks[c]["queued"]
            /\ Passed(c)' = Passed(c)
            /\ child_state' = child_state
            /\ channel' = channel
            /\ bio' = bio
            /\ pause_count' = pause_count
            /\ bdev' = bdev]_vars

\* futures have returned for each of the three reasons: the nexus was gone
\* for one, the child was gone for another, and a third lost the
\* compare-and-swap to a future of the same child
C19_Witness ==
  \E a, b, c \in Child :
    /\ tasks[a]["unresolved"] > 0 /\ child_lookup(a) /\ ~nexus_lookup
    /\ tasks[b]["unresolved"] > 0 /\ ~child_lookup(b)
    /\ tasks[c]["lost"] > 0

====
